---- MODULE Spec2Model ----
(***************************************************************************)
(* The mutations and queries of crm/schema.py (CreateCustomer,             *)
(* BulkCreateCustomers, CreateProduct, CreateOrder, Query) over the        *)
(* customer, product and order tables.  Request handlers run concurrently; *)
(* a handler is split into steps where it reaches the database.            *)
(***************************************************************************)
EXTENDS Integers, Sequences, FiniteSets, TLC

\* ------------------------------------------------------------- bounds
MaxBulk == 2
MaxProducts == 2
MaxOrders == 2

\* Concurrent request handlers.
Procs == {"r1", "r2"}

\* ------------------------------------------------------------- values
\* Text the code inspects character by character is a sequence of characters.
Whitespace == {" ", "\t"}
Names == {<< >>, <<" ", "\t">>, <<"A", "l">>}
ValidEmails == {"a@x.io", "b@x.io"}
Emails == ValidEmails \cup {"nope"}
NoPhone == "None"
ValidPhones == {"+1234567890"}
Phones == {NoPhone} \cup ValidPhones \cup {"12ab"}

\* Product inputs: price is a Decimal, held here in whole units.
ProductNames == {"", "Pen"}
Prices == {-1, 0, 5, 7}
Stocks == {-1, 0, 3}

\* graphene.ID values arrive as text.
Digits == <<"0", "1", "2", "3", "4", "5", "6", "7", "8", "9">>
CustomerIds == {<<"1">>, <<"7">>, <<"x">>}
ProductIdLists ==
    {<< >>,
     << <<"1">> >>,
     << <<"0", "1">> >>,
     << <<"x">> >>,
     << <<"1">>, <<"2">> >>,
     << <<"1">>, <<"1">> >>,
     << <<"1">>, <<"7">> >>,
     << <<"0", "1">>, <<"7">> >>,
     << <<"2">>, <<"1">>, <<"2">> >>}

CustomerInputs == [name : Names, email : Emails, phone : Phones]

\* ------------------------------------------------------------- results
\* What a call of mutate / resolve ends with: a returned payload, or an
\* exception leaving the method.
NoResult ==
    [kind |-> "none", value |-> 0, values |-> << >>, errors |-> << >>,
     named |-> {}, rows |-> {}, exc |-> ""]

Returned(value, values, errors) ==
    [NoResult EXCEPT !.kind = "returned", !.value = value,
                     !.values = values, !.errors = errors]

Raised(exc) ==
    [NoResult EXCEPT !.kind = "raised", !.exc = exc]

CustomErrorType(field, message) == [field |-> field, message |-> message]

NoArgs == [op |-> "none"]
NoFrame == [i |-> 0]

VARIABLES customers, products, orders, order_products, uncommitted,
          nextOrderId, pc, args, frame, result

vars == <<customers, products, orders, order_products, uncommitted,
          nextOrderId, pc, args, frame, result>>

\* ------------------------------------------------------------- str.strip
RECURSIVE lstrip(_)
lstrip(s) ==
    IF Len(s) > 0 /\ Head(s) \in Whitespace THEN lstrip(Tail(s)) ELSE s

RECURSIVE rstrip(_)
rstrip(s) ==
    IF Len(s) > 0 /\ s[Len(s)] \in Whitespace
    THEN rstrip(SubSeq(s, 1, Len(s) - 1))
    ELSE s

strip(s) == rstrip(lstrip(s))

\* ------------------------------------------------------------- Customer model
EmailTaken(email) == \E k \in 1..Len(customers) : customers[k].email = email

\* Customer.full_clean(): the fields that fail, in field order, with the
\* message of each.  A field that failed its own validation is left out of
\* the uniqueness check.
CustomerFieldErrors(data) ==
    (IF data.name = << >>
     THEN <<CustomErrorType("name", "This field cannot be blank.")>>
     ELSE << >>)
    \o
    (IF data.email \notin ValidEmails
     THEN <<CustomErrorType("email", "Enter a valid email address.")>>
     ELSE IF EmailTaken(data.email)
     THEN <<CustomErrorType("email", "Customer with this Email already exists.")>>
     ELSE << >>)
    \o
    (IF data.phone # NoPhone /\ data.phone \notin ValidPhones
     THEN <<CustomErrorType("phone", "Invalid phone number format.")>>
     ELSE << >>)

CustomerRow(data) == [name |-> data.name, email |-> data.email, phone |-> data.phone]

\* ------------------------------------------------------------- CreateCustomer
\* `if not name.strip()`
NameIsBlank(name) == strip(name) = << >>

\* ValidationError("Name cannot be empty.") carries a single message and no
\* error_dict: reading e.message_dict in the handler raises AttributeError,
\* which no handler of the try statement catches.
BlankNameOutcome == Raised("AttributeError")

ValidationHandlerDropsErrors(errors) == Returned(0, << >>, << >>)

\* `except ValidationError as e` of CreateCustomer.mutate, for an error that
\* carries a message_dict: one entry per field, the field's first message.
ValidationHandler(errors) == Returned(0, << >>, errors)

GeneralHandlerMissing(e) == Raised(e)

\* `except Exception as e` of CreateCustomer.mutate.
GeneralHandler(e) == Returned(0, << >>, <<CustomErrorType("general", e)>>)

\* mutate up to and including customer.full_clean().  args.taken records
\* whether the email was stored when the call validated it.
CreateCustomerClean(p) ==
    /\ pc[p] = "idle"
    /\ \E data \in CustomerInputs :
         /\ args' = [args EXCEPT ![p] =
                [op |-> "createCustomer", name |-> data.name,
                 email |-> data.email, phone |-> data.phone,
                 taken |-> EmailTaken(data.email)]]
         /\ IF NameIsBlank(data.name)
            THEN /\ result' = [result EXCEPT ![p] = BlankNameOutcome]
                 /\ pc' = [pc EXCEPT ![p] = "done"]
            ELSE IF CustomerFieldErrors(data) # << >>
            THEN /\ result' = [result EXCEPT ![p] =
                        ValidationHandler(CustomerFieldErrors(data))]
                 /\ pc' = [pc EXCEPT ![p] = "done"]
            ELSE /\ result' = result
                 /\ pc' = [pc EXCEPT ![p] = "cc_save"]
    /\ UNCHANGED <<customers, products, orders, order_products, uncommitted,
                   nextOrderId, frame>>

\* customer.save() and the return, or the handler of what save raised.
CreateCustomerSave(p) ==
    /\ pc[p] = "cc_save"
    /\ IF EmailTaken(args[p].email)
       THEN /\ result' = [result EXCEPT ![p] = GeneralHandler("IntegrityError")]
            /\ UNCHANGED customers
       ELSE /\ customers' = Append(customers, CustomerRow(args[p]))
            /\ result' = [result EXCEPT ![p] =
                   Returned(Len(customers) + 1, << >>, << >>)]
    /\ pc' = [pc EXCEPT ![p] = "done"]
    /\ UNCHANGED <<products, orders, order_products, uncommitted,
                   nextOrderId, args, frame>>

\* ------------------------------------------------------------- BulkCreateCustomers
RECURSIVE SeqsUpTo(_, _)
SeqsUpTo(S, n) ==
    IF n = 0 THEN {<< >>}
    ELSE LET shorter == SeqsUpTo(S, n - 1)
         IN  shorter \cup {Append(s, x) : s \in {t \in shorter : Len(t) = n - 1}, x \in S}

\* The items a bulk request is built from.
BulkItems ==
    {[name |-> <<"A", "l">>, email |-> "a@x.io", phone |-> NoPhone],
     [name |-> <<"A", "l">>, email |-> "b@x.io", phone |-> "+1234567890"],
     [name |-> << >>, email |-> "nope", phone |-> "12ab"]}

ErrorStringZeroBased(i, data) == [index |-> i, email |-> data.email]

\* f"Error on customer #{i+1} ({data.email}): ..."
ErrorString(i, data) == [index |-> i + 1, email |-> data.email]

BulkCall(p) ==
    /\ pc[p] = "idle"
    /\ \E customers_data \in SeqsUpTo(BulkItems, MaxBulk) :
         args' = [args EXCEPT ![p] =
             [op |-> "bulkCreateCustomers", customers_data |-> customers_data]]
    /\ frame' = [frame EXCEPT ![p] =
          [i |-> 0, successful_customers |-> << >>, error_list |-> << >>]]
    /\ pc' = [pc EXCEPT ![p] = "bulk_loop"]
    /\ UNCHANGED <<customers, products, orders, order_products, uncommitted,
                   nextOrderId, result>>

\* The loop head: the return once the list is exhausted, otherwise
\* Customer(...) and customer.full_clean() of the next item.
BulkClean(p) ==
    /\ pc[p] = "bulk_loop"
    /\ LET f == frame[p]
           customers_data == args[p].customers_data
       IN  IF f.i >= Len(customers_data)
           THEN /\ result' = [result EXCEPT ![p] =
                       Returned(0, f.successful_customers, f.error_list)]
                /\ pc' = [pc EXCEPT ![p] = "done"]
                /\ frame' = frame
           ELSE LET data == customers_data[f.i + 1]
                IN  IF CustomerFieldErrors(data) # << >>
                    THEN /\ frame' = [frame EXCEPT ![p] =
                                [f EXCEPT !.i = f.i + 1,
                                          !.error_list = Append(@, ErrorString(f.i, data))]]
                         /\ UNCHANGED <<pc, result>>
                    ELSE /\ pc' = [pc EXCEPT ![p] = "bulk_save"]
                         /\ UNCHANGED <<frame, result>>
    /\ UNCHANGED <<customers, products, orders, order_products, uncommitted,
                   nextOrderId, args>>

\* customer.save() of the current item and the append that follows it.
BulkSave(p) ==
    /\ pc[p] = "bulk_save"
    /\ LET f == frame[p]
           data == args[p].customers_data[f.i + 1]
       IN  IF EmailTaken(data.email)
           THEN /\ frame' = [frame EXCEPT ![p] =
                       [f EXCEPT !.i = f.i + 1,
                                 !.error_list = Append(@, ErrorString(f.i, data))]]
                /\ UNCHANGED customers
           ELSE /\ customers' = Append(customers, CustomerRow(data))
                /\ frame' = [frame EXCEPT ![p] =
                       [f EXCEPT !.i = f.i + 1,
                                 !.successful_customers = Append(@, Len(customers) + 1)]]
    /\ pc' = [pc EXCEPT ![p] = "bulk_loop"]
    /\ UNCHANGED <<products, orders, order_products, uncommitted,
                   nextOrderId, args, result>>

\* ------------------------------------------------------------- CreateProduct
PriceRejectedBelowZero(price) == price < 0

\* `if price <= 0`
PriceRejected(price) == price <= 0

\* `if stock < 0`
StockRejected(stock) == stock < 0

\* Product.full_clean(): the fields that fail.
ProductFieldErrors(name) ==
    IF name = ""
    THEN <<CustomErrorType("name", "This field cannot be blank.")>>
    ELSE << >>

\* The whole of CreateProduct.mutate: it reaches the database once.
CreateProduct(p) ==
    /\ pc[p] = "idle"
    /\ Len(products) < MaxProducts
    /\ \E name \in ProductNames, price \in Prices, stock \in Stocks :
         /\ args' = [args EXCEPT ![p] =
                [op |-> "createProduct", name |-> name, price |-> price,
                 stock |-> stock]]
         /\ IF PriceRejected(price)
            THEN /\ result' = [result EXCEPT ![p] = Returned(0, << >>,
                        <<CustomErrorType("price", "Price must be positive.")>>)]
                 /\ UNCHANGED products
            ELSE IF StockRejected(stock)
            THEN /\ result' = [result EXCEPT ![p] = Returned(0, << >>,
                        <<CustomErrorType("stock", "Stock cannot be negative.")>>)]
                 /\ UNCHANGED products
            ELSE IF ProductFieldErrors(name) # << >>
            THEN /\ result' = [result EXCEPT ![p] =
                        Returned(0, << >>, ProductFieldErrors(name))]
                 /\ UNCHANGED products
            ELSE /\ products' = Append(products,
                        [name |-> name, price |-> price, stock |-> stock])
                 /\ result' = [result EXCEPT ![p] =
                        Returned(Len(products) + 1, << >>, << >>)]
    /\ pc' = [pc EXCEPT ![p] = "done"]
    /\ UNCHANGED <<customers, orders, order_products, uncommitted,
                   nextOrderId, frame>>

\* ------------------------------------------------------------- ids as text
DigitValue(c) == (CHOOSE d \in 1..10 : Digits[d] = c) - 1

\* Whether int() accepts the text (signs and blanks are not among the inputs).
IsNumeric(s) == Len(s) > 0 /\ \A i \in 1..Len(s) : \E d \in 1..10 : Digits[d] = s[i]

\* int(s), the value the primary key lookup compares with.
RECURSIVE ParseInt(_)
ParseInt(s) ==
    IF Len(s) = 0 THEN 0
    ELSE 10 * ParseInt(SubSeq(s, 1, Len(s) - 1)) + DigitValue(s[Len(s)])

\* str(n)
RECURSIVE Str(_)
Str(n) ==
    IF n < 10 THEN <<Digits[n + 1]>>
    ELSE Str(n \div 10) \o <<Digits[(n % 10) + 1]>>

Range(s) == {s[i] : i \in 1..Len(s)}

\* ------------------------------------------------------------- CreateOrder
NoTransaction == FALSE

\* @transaction.atomic on CreateOrder.mutate.
transaction_atomic == TRUE

\* What handler p reads from the order tables: the committed rows and the
\* writes of its own open transaction.
OrdersSeenBy(p) == orders \cup uncommitted[p].rows
LinksSeenBy(p) == order_products \cup uncommitted[p].links

\* Customer.objects.filter(pk=customer_id).first(): the row's id, 0 for None.
CustomerLookup(customer_id) ==
    IF ParseInt(customer_id) \in 1..Len(customers) THEN ParseInt(customer_id) ELSE 0

\* Product.objects.filter(pk__in=product_ids): the ids of the rows found.
ProductsIn(product_ids) ==
    {k \in 1..Len(products) : \E i \in 1..Len(product_ids) : ParseInt(product_ids[i]) = k}

found_ids(found) == {Str(k) : k \in found}

missing_ids(product_ids, found) == Range(product_ids) \ found_ids(found)

RECURSIVE SumPrices(_)
SumPrices(S) ==
    IF S = {} THEN 0
    ELSE LET k == CHOOSE x \in S : TRUE
         IN  products[k].price + SumPrices(S \ {k})

\* Order.save(): total_amount is the sum of the prices of the attached products.
OrderTotal(p, id) == SumPrices({l[2] : l \in {m \in LinksSeenBy(p) : m[1] = id}})

ValidationResult(named) ==
    [Returned(0, << >>, <<CustomErrorType("validation", "ValidationError")>>)
        EXCEPT !.named = named]

\* The validation part of mutate: the reads, and the ValidationError handler.
CreateOrderValidate(p) ==
    /\ pc[p] = "idle"
    /\ nextOrderId + Cardinality({q \in Procs : pc[q] = "co_create"}) <= MaxOrders
    /\ \E customer_id \in CustomerIds, product_ids \in ProductIdLists :
         /\ args' = [args EXCEPT ![p] =
                [op |-> "createOrder", customer_id |-> customer_id,
                 product_ids |-> product_ids]]
         /\ IF product_ids = << >>
            THEN /\ result' = [result EXCEPT ![p] = ValidationResult({})]
                 /\ pc' = [pc EXCEPT ![p] = "done"]
                 /\ frame' = frame
            ELSE IF ~IsNumeric(customer_id)
            THEN /\ result' = [result EXCEPT ![p] = Raised("ValueError")]
                 /\ pc' = [pc EXCEPT ![p] = "done"]
                 /\ frame' = frame
            ELSE IF CustomerLookup(customer_id) = 0
            THEN /\ result' = [result EXCEPT ![p] = ValidationResult({})]
                 /\ pc' = [pc EXCEPT ![p] = "done"]
                 /\ frame' = frame
            ELSE IF \E i \in 1..Len(product_ids) : ~IsNumeric(product_ids[i])
            THEN /\ result' = [result EXCEPT ![p] = Raised("ValueError")]
                 /\ pc' = [pc EXCEPT ![p] = "done"]
                 /\ frame' = frame
            ELSE IF Cardinality(ProductsIn(product_ids)) # Len(product_ids)
            THEN /\ result' = [result EXCEPT ![p] = ValidationResult(
                        missing_ids(product_ids, ProductsIn(product_ids)))]
                 /\ pc' = [pc EXCEPT ![p] = "done"]
                 /\ frame' = frame
            ELSE /\ frame' = [frame EXCEPT ![p] =
                        [i |-> 0, customer |-> CustomerLookup(customer_id),
                         products |-> ProductsIn(product_ids), order |-> 0]]
                 /\ pc' = [pc EXCEPT ![p] = "co_create"]
                 /\ result' = result
    /\ UNCHANGED <<customers, products, orders, order_products, uncommitted,
                   nextOrderId>>

\* A write of handler p to the order tables: into its transaction, or straight
\* into the tables when there is none.
WriteOrders(p, rows, links) ==
    IF transaction_atomic
    THEN /\ uncommitted' = [uncommitted EXCEPT ![p] = [rows |-> rows, links |-> links]]
         /\ UNCHANGED <<orders, order_products>>
    ELSE /\ orders' = rows
         /\ order_products' = links
         /\ UNCHANGED uncommitted

\* An exception other than ValidationError leaves mutate: the transaction is
\* rolled back.
RaiseOutOfMutate(p, exc) ==
    /\ result' = [result EXCEPT ![p] = Raised(exc)]
    /\ pc' = [pc EXCEPT ![p] = "done"]
    /\ uncommitted' = [uncommitted EXCEPT ![p] = [rows |-> {}, links |-> {}]]
    /\ UNCHANGED <<orders, order_products>>

\* Order.objects.create(customer=customer)
CreateOrderInsert(p) ==
    /\ pc[p] = "co_create"
    /\ LET row == [id |-> nextOrderId, customer |-> frame[p].customer,
                   total_amount |-> 0]
       IN  WriteOrders(p, OrdersSeenBy(p) \cup {row}, LinksSeenBy(p))
    /\ frame' = [frame EXCEPT ![p].order = nextOrderId]
    /\ nextOrderId' = nextOrderId + 1
    /\ pc' = [pc EXCEPT ![p] = "co_set"]
    /\ UNCHANGED <<customers, products, args, result>>

\* order.products.set(products), or the database failing under it.
CreateOrderSetProducts(p) ==
    /\ pc[p] = "co_set"
    /\ \/ /\ WriteOrders(p, OrdersSeenBy(p),
                 LinksSeenBy(p) \cup {<<frame[p].order, k>> : k \in frame[p].products})
          /\ pc' = [pc EXCEPT ![p] = "co_save"]
          /\ result' = result
       \/ RaiseOutOfMutate(p, "DatabaseError")
    /\ UNCHANGED <<customers, products, nextOrderId, args, frame>>

\* order.save(), or the database failing under it.
CreateOrderSave(p) ==
    /\ pc[p] = "co_save"
    /\ \/ /\ LET id == frame[p].order
                 old == CHOOSE r \in OrdersSeenBy(p) : r.id = id
             IN  WriteOrders(p,
                     (OrdersSeenBy(p) \ {old})
                        \cup {[old EXCEPT !.total_amount = OrderTotal(p, id)]},
                     LinksSeenBy(p))
          /\ pc' = [pc EXCEPT ![p] = "co_return"]
          /\ result' = result
       \/ RaiseOutOfMutate(p, "DatabaseError")
    /\ UNCHANGED <<customers, products, nextOrderId, args, frame>>

\* return CreateOrder(order=order): the transaction commits.
CreateOrderReturn(p) ==
    /\ pc[p] = "co_return"
    /\ orders' = OrdersSeenBy(p)
    /\ order_products' = LinksSeenBy(p)
    /\ uncommitted' = [uncommitted EXCEPT ![p] = [rows |-> {}, links |-> {}]]
    /\ result' = [result EXCEPT ![p] = Returned(frame[p].order, << >>, << >>)]
    /\ pc' = [pc EXCEPT ![p] = "done"]
    /\ UNCHANGED <<customers, products, nextOrderId, args, frame>>

\* ------------------------------------------------------------- Query
\* resolve_all_orders, first query: the order rows joined with their customer.
resolve_all_orders(p) ==
    /\ pc[p] = "idle"
    /\ args' = [args EXCEPT ![p] = [op |-> "allOrders"]]
    /\ frame' = [frame EXCEPT ![p] = [i |-> 0, rows |-> OrdersSeenBy(p)]]
    /\ pc' = [pc EXCEPT ![p] = "ao_prefetch"]
    /\ UNCHANGED <<customers, products, orders, order_products, uncommitted,
                   nextOrderId, result>>

\* resolve_all_orders, second query: prefetch_related('products').
PrefetchProducts(p) ==
    /\ pc[p] = "ao_prefetch"
    /\ result' = [result EXCEPT ![p] =
          [Returned(0, << >>, << >>) EXCEPT !.rows =
              {[id |-> r.id, customer |-> r.customer, total_amount |-> r.total_amount,
                products |-> {l[2] : l \in {m \in LinksSeenBy(p) : m[1] = r.id}}]
               : r \in frame[p].rows}]]
    /\ pc' = [pc EXCEPT ![p] = "done"]
    /\ UNCHANGED <<customers, products, orders, order_products, uncommitted,
                   nextOrderId, args, frame>>

\* ------------------------------------------------------------- the response leaves
Respond(p) ==
    /\ pc[p] = "done"
    /\ pc' = [pc EXCEPT ![p] = "idle"]
    /\ args' = [args EXCEPT ![p] = NoArgs]
    /\ frame' = [frame EXCEPT ![p] = NoFrame]
    /\ result' = [result EXCEPT ![p] = NoResult]
    /\ UNCHANGED <<customers, products, orders, order_products, uncommitted,
                   nextOrderId>>

\* ------------------------------------------------------------- specifications
NoTx == [rows |-> {}, links |-> {}]

InitHandlers ==
    /\ pc = [p \in Procs |-> "idle"]
    /\ args = [p \in Procs |-> NoArgs]
    /\ frame = [p \in Procs |-> NoFrame]
    /\ result = [p \in Procs |-> NoResult]
    /\ uncommitted = [p \in Procs |-> NoTx]
    /\ orders = {}
    /\ order_products = {}
    /\ nextOrderId = 1

InitCustomers ==
    /\ InitHandlers
    /\ customers = << >>
    /\ products = << >>

NextCustomers ==
    \E p \in Procs :
        \/ CreateCustomerClean(p)
        \/ CreateCustomerSave(p)
        \/ BulkCall(p)
        \/ BulkClean(p)
        \/ BulkSave(p)
        \/ Respond(p)

SpecCustomers == InitCustomers /\ [][NextCustomers]_vars

InitProducts ==
    /\ InitHandlers
    /\ customers = << >>
    /\ products = << >>

NextProducts ==
    \E p \in Procs :
        \/ CreateProduct(p)
        \/ Respond(p)

SpecProducts == InitProducts /\ [][NextProducts]_vars

\* The order handlers start from tables the customer and product mutations
\* have filled.
StoredCustomers ==
    <<[name |-> <<"A", "l">>, email |-> "a@x.io", phone |-> NoPhone]>>

StoredProducts == [name : {"Pen"}, price : {5, 7}, stock : {0}]

InitOrders ==
    /\ InitHandlers
    /\ customers = StoredCustomers
    /\ products \in SeqsUpTo(StoredProducts, MaxProducts)

NextOrders ==
    \E p \in Procs :
        \/ CreateOrderValidate(p)
        \/ CreateOrderInsert(p)
        \/ CreateOrderSetProducts(p)
        \/ CreateOrderSave(p)
        \/ CreateOrderReturn(p)
        \/ resolve_all_orders(p)
        \/ PrefetchProducts(p)
        \/ Respond(p)

SpecOrders == InitOrders /\ [][NextOrders]_vars

\* ------------------------------------------------------------- properties
Done(p, op) == pc[p] = "done" /\ args[p].op = op

Fields(errors) == {errors[i].field : i \in 1..Len(errors)}

\* Whether a product id, as text, is the primary key of a stored product.
Resolves(product_id) ==
    IsNumeric(product_id) /\ ParseInt(product_id) \in 1..Len(products)

CustomerResolves(customer_id) ==
    IsNumeric(customer_id) /\ ParseInt(customer_id) \in 1..Len(customers)

\* C1: every mutation call ends by returning a result value; no exception
\* leaves mutate.
NoExceptionEscapes ==
    \A p \in Procs : pc[p] = "done" => result[p].kind = "returned"

\* C6: createCustomer with an empty or whitespace-only name returns no
\* customer and an error list with an entry for the name field.
BlankNameReturnsNameError ==
    \A p \in Procs :
        (Done(p, "createCustomer") /\ NameIsBlank(args[p].name)) =>
            /\ result[p].kind = "returned"
            /\ result[p].value = 0
            /\ "name" \in Fields(result[p].errors)

\* An input createCustomer can only refuse because its email is stored.
OtherwiseValid(a) ==
    /\ ~NameIsBlank(a.name)
    /\ a.email \in ValidEmails
    /\ a.phone = NoPhone \/ a.phone \in ValidPhones

InvalidItem(data) ==
    \/ data.name = << >>
    \/ data.email \notin ValidEmails
    \/ data.phone # NoPhone /\ data.phone \notin ValidPhones

ErrorIndices(errors) == {errors[k].index : k \in 1..Len(errors)}

ProductBounds ==
    /\ \A k \in 1..Len(products) :
          products[k].price > 0 /\ products[k].stock >= 0
    /\ \A p \in Procs :
          (Done(p, "createProduct")
              /\ (args[p].price <= 0 \/ args[p].stock < 0)) =>
            /\ result[p].kind = "returned"
            /\ result[p].value = 0
            /\ result[p].errors # << >>
            /\ Fields(result[p].errors) \subseteq
                  {f \in {"price", "stock"} :
                      \/ f = "price" /\ args[p].price <= 0
                      \/ f = "stock" /\ args[p].stock < 0}
            /\ args[p].price <= 0 => "price" \in Fields(result[p].errors)
            /\ args[p].price > 0 => "stock" \in Fields(result[p].errors)

\* One call refused for its price, one for its stock, beside a stored product.
ProductBoundsWitness ==
    \E p, q \in Procs :
        /\ Done(p, "createProduct") /\ args[p].price <= 0
        /\ "price" \in Fields(result[p].errors)
        /\ Done(q, "createProduct") /\ args[q].price > 0 /\ args[q].stock < 0
        /\ "stock" \in Fields(result[q].errors)
        /\ Len(products) >= 1

\* An order as it should be seen: with its customer, a non-empty set of
\* stored products, and the total of their prices.
WholeOrder(row, attached) ==
    /\ row.customer \in 1..Len(customers)
    /\ attached # {}
    /\ attached \subseteq 1..Len(products)
    /\ row.total_amount = SumPrices(attached)

Attached(id) == {l[2] : l \in {m \in order_products : m[1] = id}}

\* C8: what a request other than the creating one can read of the order
\* tables is whole orders only, and so is every allOrders result; an order
\* whose creation failed after its row was written has left no row and no
\* product association behind.
NoPartialOrderVisible ==
    /\ \A r \in orders : WholeOrder(r, Attached(r.id))
    /\ \A l \in order_products : \E r \in orders : r.id = l[1]
    /\ \A p \in Procs :
          Done(p, "allOrders") =>
            \A r \in result[p].rows : WholeOrder(r, r.products)
    /\ \A p \in Procs :
          (Done(p, "createOrder") /\ result[p].exc = "DatabaseError") =>
            /\ \A r \in orders : r.id # frame[p].order
            /\ Attached(frame[p].order) = {}
            /\ uncommitted[p] = NoTx

\* An allOrders result with orders in it, delivered while another request
\* holds an order it has written and not yet committed.
NoPartialOrderVisibleWitness ==
    \E p, q \in Procs :
        /\ Done(p, "allOrders")
        /\ result[p].rows # {}
        /\ pc[q] \in {"co_save", "co_return"}
        /\ uncommitted[q].links # {}

\* C2: createOrder for an existing customer and a non-empty list of product
\* ids that all resolve returns a stored order and no errors, with
\* total_amount the sum of the prices of the products the list names.
ValidOrderIsCreated ==
    \A p \in Procs :
        (Done(p, "createOrder")
            /\ result[p].exc # "DatabaseError"
            /\ CustomerResolves(args[p].customer_id)
            /\ args[p].product_ids # << >>
            /\ \A i \in 1..Len(args[p].product_ids) :
                  Resolves(args[p].product_ids[i])) =>
            /\ result[p].kind = "returned"
            /\ result[p].errors = << >>
            /\ \E r \in orders :
                  /\ r.id = result[p].value
                  /\ r.total_amount =
                        SumPrices({ParseInt(args[p].product_ids[i]) :
                                      i \in 1..Len(args[p].product_ids)})

\* C3: for an existing customer and a list mixing resolving and
\* non-resolving product ids, the error createOrder returns names exactly the
\* ids that do not resolve.
MixedIdsNameExactlyMissing ==
    \A p \in Procs :
        (Done(p, "createOrder")
            /\ result[p].kind = "returned"
            /\ CustomerResolves(args[p].customer_id)
            /\ (\E i \in 1..Len(args[p].product_ids) :
                  Resolves(args[p].product_ids[i]))
            /\ (\E j \in 1..Len(args[p].product_ids) :
                  ~Resolves(args[p].product_ids[j]))) =>
            /\ result[p].value = 0
            /\ result[p].errors # << >>
            /\ result[p].named =
                  {s \in Range(args[p].product_ids) : ~Resolves(s)}

\* C9: createOrder returns errors and no order exactly when the product id
\* list is empty, the customer id does not resolve, or some product id does
\* not resolve.
RejectedIffInvalid ==
    \A p \in Procs :
        (Done(p, "createOrder") /\ result[p].kind = "returned") =>
            ((result[p].value = 0 /\ result[p].errors # << >>)
                <=> \/ args[p].product_ids = << >>
                    \/ ~CustomerResolves(args[p].customer_id)
                    \/ \E i \in 1..Len(args[p].product_ids) :
                          ~Resolves(args[p].product_ids[i]))

====
